---------------------------- MODULE Spec2Model ----------------------------
(***************************************************************************)
(* MusicLinkedList (src/src/App.tsx, lines 170-470): the circular doubly   *)
(* linked playlist of the MusicLink player.                                *)
(*                                                                         *)
(* The heap is a function from node addresses to TrackNode objects; an     *)
(* address stands for a JavaScript object identity.  A TrackNode carries   *)
(* its track identifier and its own next and prev references (0 is null).  *)
(* The other data fields of a track (title, artist, duration, ...) are     *)
(* copied unchanged with the identifier by every method modelled here.     *)
(*                                                                         *)
(* originalOrder is a TrackNode[] in the source.  restoreOrder is its only *)
(* reader and reads the data fields of its elements, never their links     *)
(* (lines 341-351), and no method writes a data field after construction,  *)
(* so the array is modelled by the sequence of identifiers it holds.       *)
(*                                                                         *)
(* Every method is an operator from a list record to [st, node, ok]: the   *)
(* list after the call, the node it returns (Null when it returns none)    *)
(* and the boolean it returns.  An action applies one method to the        *)
(* variables, then drops the objects no reference reaches (garbage         *)
(* collection) and renames the addresses in ring order, which no method    *)
(* can observe: object identity is only ever compared with ===.            *)
(***************************************************************************)
EXTENDS Integers, Sequences, FiniteSets

VARIABLES head, current, size, isShuffled, originalOrder, heap, op, fresh, inserted,
          roundTrip, cleared, ledger, playerIsShuffled

vars == <<head, current, size, isShuffled, originalOrder, heap, op, fresh, inserted,
          roundTrip, cleared, ledger, playerIsShuffled>>

\* Bounds of the model.  Under Spec the caller keeps the identifiers it
\* inserts unique, as the player does (they are the store's _id): NumIds
\* identifiers, and no insertion into a list of MaxSize nodes.  Under SpecDup
\* the caller inserts any of NumDupIds identifiers, held already or not,
\* into a list of fewer than MaxDupSize nodes.  Under SpecQuery the caller
\* also searches and reads the total duration; it keeps identifiers unique
\* and inserts into a list of fewer than MaxQuerySize nodes, and the search
\* is taken with every query of at most MaxQueryLen characters.
NumIds == 3
MaxSize == 3
NumDupIds == 2
MaxDupSize == 2
MaxQuerySize == 2
MaxQueryLen == 2

Null == 0
TrackIds == 1..NumIds

\* new TrackNode(track): the links start null.
TrackNode(id) == [id |-> id, next |-> Null, prev |-> Null]

\* new MusicLinkedList(): the field initialisers.
EmptyList ==
    [head |-> Null, current |-> Null, size |-> 0, isShuffled |-> FALSE,
     originalOrder |-> <<>>, heap |-> <<>>]

\* The list object made of the variables.
Self ==
    [head |-> head, current |-> current, size |-> size, isShuffled |-> isShuffled,
     originalOrder |-> originalOrder, heap |-> heap]

\* Field reads through a reference; reading through null or through a
\* reference to no object yields null (the model never raises).
NextOf(h, n) == IF n \in DOMAIN h THEN h[n].next ELSE Null
PrevOf(h, n) == IF n \in DOMAIN h THEN h[n].prev ELSE Null
IdOf(h, n) == IF n \in DOMAIN h THEN h[n].id ELSE Null

\* The address of a newly allocated object: one the heap does not hold.
NewAddr(h) == CHOOSE a \in 1..(Cardinality(DOMAIN h) + 1) : a \notin DOMAIN h

\* The do-while traversal of getAllTracks: push node, step to node.next,
\* until node is head again.  The fuel is the number of objects of the
\* heap: a traversal that has not closed by then never closes.
RECURSIVE Traverse(_, _, _, _, _)
Traverse(h, first, node, acc, fuel) ==
    LET acc2 == Append(acc, node)
        nxt == NextOf(h, node)
    IN IF nxt = first \/ nxt = Null \/ fuel <= 1 THEN acc2
       ELSE Traverse(h, first, nxt, acc2, fuel - 1)

\* getAllTracks(): the nodes from head, following next.
GetAllTracks(s) ==
    IF s.head = Null THEN <<>>
    ELSE Traverse(s.heap, s.head, s.head, <<>>, Cardinality(DOMAIN s.heap))

\* The identifiers of a sequence of nodes.
IdsOf(h, nodes) == [i \in 1..Len(nodes) |-> IdOf(h, nodes[i])]

\* What the caller sees of getAllTracks(): the tracks in ring order.
AllTracks(s) == IdsOf(s.heap, GetAllTracks(s))

\* Mutant of UpdateOriginalOrder: the test is inverted.
UpdateOriginalOrderInverted(s) ==
    IF s.isShuffled THEN [s EXCEPT !.originalOrder = AllTracks(s)] ELSE s

\* Mutant of UpdateOriginalOrder: the test is left out.
UpdateOriginalOrderAlways(s) == [s EXCEPT !.originalOrder = AllTracks(s)]

\* updateOriginalOrder(): refreshed unless shuffled.
UpdateOriginalOrder(s) ==
    IF ~s.isShuffled THEN [s EXCEPT !.originalOrder = AllTracks(s)] ELSE s


\* Field writes through a reference.
SetNext(h, n, v) == IF n \in DOMAIN h THEN [h EXCEPT ![n].next = v] ELSE h
SetPrev(h, n, v) == IF n \in DOMAIN h THEN [h EXCEPT ![n].prev = v] ELSE h

\* The heap with a new object at address n.
Alloc(h, n, obj) == [a \in DOMAIN h \cup {n} |-> IF a = n THEN obj ELSE h[a]]

\* The result of a method: the list after it, the node and the boolean returned.
Result(s, node, ok) == [st |-> s, node |-> node, ok |-> ok]

\* Mutant of AddFirst: this.current = newNode is forgotten.
AddFirstNoCurrent(s, n, id) ==
    [s EXCEPT !.heap = Alloc(s.heap, n, [TrackNode(id) EXCEPT !.next = n, !.prev = n]),
              !.head = n]

\* addTrack, first branch (!this.head): the new node is head and current and
\* is its own next and prev.
AddFirst(s, n, id) ==
    [s EXCEPT !.heap = Alloc(s.heap, n, [TrackNode(id) EXCEPT !.next = n, !.prev = n]),
              !.head = n,
              !.current = n]

\* Mutant of AddLast: this.head.prev = newNode is forgotten.
AddLastNoBackLink(s, n, id) ==
    LET tail == PrevOf(s.heap, s.head)
        h1 == Alloc(s.heap, n, [TrackNode(id) EXCEPT !.next = s.head, !.prev = tail])
        h2 == SetNext(h1, tail, n)
    IN [s EXCEPT !.heap = h2]

\* Mutant of AddLast: the new node is spliced after head, not before it.
AddAfterHead(s, n, id) ==
    LET second == NextOf(s.heap, s.head)
        h1 == Alloc(s.heap, n, [TrackNode(id) EXCEPT !.next = second, !.prev = s.head])
        h2 == SetPrev(h1, second, n)
        h3 == SetNext(h2, s.head, n)
    IN [s EXCEPT !.heap = h3]

\* Mutant of AddLast: the new node becomes current, as in the first branch.
AddLastMovesCurrent(s, n, id) ==
    LET tail == PrevOf(s.heap, s.head)
        h1 == Alloc(s.heap, n, [TrackNode(id) EXCEPT !.next = s.head, !.prev = tail])
        h2 == SetNext(h1, tail, n)
        h3 == SetPrev(h2, s.head, n)
    IN [s EXCEPT !.heap = h3, !.current = n]

\* addTrack, second branch: the new node is spliced between the tail
\* (head.prev) and head.
AddLast(s, n, id) ==
    LET tail == PrevOf(s.heap, s.head)
        h1 == Alloc(s.heap, n, [TrackNode(id) EXCEPT !.next = s.head, !.prev = tail])
        h2 == SetNext(h1, tail, n)
        h3 == SetPrev(h2, s.head, n)
    IN [s EXCEPT !.heap = h3]

\* Mutant of AddTrack: this.size++ is forgotten.
AddTrackNoCount(s, id) ==
    LET n == NewAddr(s.heap)
        linked == IF s.head = Null THEN AddFirst(s, n, id) ELSE AddLast(s, n, id)
    IN Result(UpdateOriginalOrder(linked), Null, FALSE)

\* Mutant of AddTrack: this.updateOriginalOrder() is forgotten.
AddTrackNoSnapshot(s, id) ==
    LET n == NewAddr(s.heap)
        linked == IF s.head = Null THEN AddFirst(s, n, id) ELSE AddLast(s, n, id)
    IN Result([linked EXCEPT !.size = s.size + 1], Null, FALSE)

\* addTrack(track): link the node, this.size++, this.updateOriginalOrder().
AddTrack(s, id) ==
    LET n == NewAddr(s.heap)
        linked == IF s.head = Null THEN AddFirst(s, n, id) ELSE AddLast(s, n, id)
        counted == [linked EXCEPT !.size = s.size + 1]
    IN Result(UpdateOriginalOrder(counted), Null, FALSE)

\* nextTrack(): null when there is no current, else current moves to its next.
NextTrack(s) ==
    IF s.current = Null THEN Result(s, Null, FALSE)
    ELSE LET n == NextOf(s.heap, s.current)
         IN Result([s EXCEPT !.current = n], n, FALSE)

\* Mutant of PrevTrack: it follows next.
PrevTrackForward(s) ==
    IF s.current = Null THEN Result(s, Null, FALSE)
    ELSE LET n == NextOf(s.heap, s.current)
         IN Result([s EXCEPT !.current = n], n, FALSE)

\* prevTrack(): null when there is no current, else current moves to its prev.
PrevTrack(s) ==
    IF s.current = Null THEN Result(s, Null, FALSE)
    ELSE LET n == PrevOf(s.heap, s.current)
         IN Result([s EXCEPT !.current = n], n, FALSE)

\* Mutant of FindFrom: a search that ends without a match returns the node
\* it stopped on.
RECURSIVE FindFromLast(_, _, _, _, _)
FindFromLast(h, first, node, trackId, fuel) ==
    IF IdOf(h, node) = trackId THEN node
    ELSE LET nxt == NextOf(h, node)
         IN IF nxt = first \/ nxt = Null \/ fuel <= 1 THEN node
            ELSE FindFromLast(h, first, nxt, trackId, fuel - 1)

\* The do-while search of setCurrentTrack and removeTrack: the first node
\* from head, following next, whose id is trackId; null when the walk is
\* back at head without a match.
RECURSIVE FindFrom(_, _, _, _, _)
FindFrom(h, first, node, trackId, fuel) ==
    IF IdOf(h, node) = trackId THEN node
    ELSE LET nxt == NextOf(h, node)
         IN IF nxt = first \/ nxt = Null \/ fuel <= 1 THEN Null
            ELSE FindFrom(h, first, nxt, trackId, fuel - 1)

\* Mutant of FindNode: the search starts on the node after head.
FindNodeAfterHead(s, trackId) ==
    IF s.head = Null THEN Null
    ELSE FindFrom(s.heap, NextOf(s.heap, s.head), NextOf(s.heap, s.head), trackId,
                  Cardinality(DOMAIN s.heap))

FindNode(s, trackId) ==
    IF s.head = Null THEN Null
    ELSE FindFrom(s.heap, s.head, s.head, trackId, Cardinality(DOMAIN s.heap))

\* Mutant of SetCurrentTrack: this.current = node is done before the test,
\* so a search without a match leaves current null.
SetCurrentTrackResets(s, trackId) ==
    LET node == FindNode(s, trackId)
    IN Result([s EXCEPT !.current = node], node, FALSE)

\* setCurrentTrack(trackId): current becomes the node found; null and no
\* change when there is none.
SetCurrentTrack(s, trackId) ==
    LET node == FindNode(s, trackId)
    IN IF node = Null THEN Result(s, Null, FALSE)
       ELSE Result([s EXCEPT !.current = node], node, FALSE)

\* Mutant of Clear: this.current = null is forgotten.
ClearKeepsCurrent(s) == Result([s EXCEPT !.head = Null, !.size = 0], Null, FALSE)

\* Mutant of Clear: the flag and the snapshot are reset too.
ClearAll(s) ==
    Result([s EXCEPT !.head = Null, !.current = Null, !.size = 0,
                     !.isShuffled = FALSE, !.originalOrder = <<>>], Null, FALSE)

\* clear(): head, current and size only.
Clear(s) == Result([s EXCEPT !.head = Null, !.current = Null, !.size = 0], Null, FALSE)

\* Mutant of Unlink: current stays on the removed node.
UnlinkKeepsCurrent(s, nodeToRemove) ==
    LET prevNode == PrevOf(s.heap, nodeToRemove)
        nextNode == NextOf(s.heap, nodeToRemove)
        h1 == SetNext(s.heap, prevNode, nextNode)
        h2 == SetPrev(h1, nextNode, prevNode)
        s1 == [s EXCEPT !.heap = h2,
                        !.head = IF nodeToRemove = s.head THEN nextNode ELSE s.head,
                        !.size = s.size - 1]
    IN UpdateOriginalOrder(s1)

\* Mutant of Unlink: nextNode.prev = prevNode is forgotten.
UnlinkNoBackLink(s, nodeToRemove) ==
    LET nextNode == NextOf(s.heap, nodeToRemove)
        h1 == SetNext(s.heap, PrevOf(s.heap, nodeToRemove), nextNode)
        s1 == [s EXCEPT !.heap = h1,
                        !.head = IF nodeToRemove = s.head THEN nextNode ELSE s.head,
                        !.current = IF nodeToRemove = s.current THEN nextNode ELSE s.current,
                        !.size = s.size - 1]
    IN UpdateOriginalOrder(s1)

\* Mutant of Unlink: this.size-- is forgotten.
UnlinkNoCount(s, nodeToRemove) ==
    LET prevNode == PrevOf(s.heap, nodeToRemove)
        nextNode == NextOf(s.heap, nodeToRemove)
        h1 == SetNext(s.heap, prevNode, nextNode)
        h2 == SetPrev(h1, nextNode, prevNode)
        s1 == [s EXCEPT !.heap = h2,
                        !.head = IF nodeToRemove = s.head THEN nextNode ELSE s.head,
                        !.current = IF nodeToRemove = s.current THEN nextNode ELSE s.current]
    IN UpdateOriginalOrder(s1)

\* Mutant of Unlink: head stays on the removed node.
UnlinkKeepsHead(s, nodeToRemove) ==
    LET prevNode == PrevOf(s.heap, nodeToRemove)
        nextNode == NextOf(s.heap, nodeToRemove)
        h1 == SetNext(s.heap, prevNode, nextNode)
        h2 == SetPrev(h1, nextNode, prevNode)
        s1 == [s EXCEPT !.heap = h2,
                        !.head = s.head,
                        !.current = IF nodeToRemove = s.current THEN nextNode ELSE s.current,
                        !.size = s.size - 1]
    IN UpdateOriginalOrder(s1)

\* Mutant of Unlink: current moves to the prev of the removed node.
UnlinkCurrentToPrev(s, nodeToRemove) ==
    LET prevNode == PrevOf(s.heap, nodeToRemove)
        nextNode == NextOf(s.heap, nodeToRemove)
        h1 == SetNext(s.heap, prevNode, nextNode)
        h2 == SetPrev(h1, nextNode, prevNode)
        s1 == [s EXCEPT !.heap = h2,
                        !.head = IF nodeToRemove = s.head THEN nextNode ELSE s.head,
                        !.current = IF nodeToRemove = s.current THEN prevNode ELSE s.current,
                        !.size = s.size - 1]
    IN UpdateOriginalOrder(s1)

\* Mutant of Unlink: head moves to the next of the removed node whichever
\* node is removed.
UnlinkMovesHead(s, nodeToRemove) ==
    LET prevNode == PrevOf(s.heap, nodeToRemove)
        nextNode == NextOf(s.heap, nodeToRemove)
        h1 == SetNext(s.heap, prevNode, nextNode)
        h2 == SetPrev(h1, nextNode, prevNode)
        s1 == [s EXCEPT !.heap = h2,
                        !.head = nextNode,
                        !.current = IF nodeToRemove = s.current THEN nextNode ELSE s.current,
                        !.size = s.size - 1]
    IN UpdateOriginalOrder(s1)

\* removeTrack, after the single-node case: unlink the node, move head and
\* current to its next when they were on it, this.size--,
\* this.updateOriginalOrder().
Unlink(s, nodeToRemove) ==
    LET prevNode == PrevOf(s.heap, nodeToRemove)
        nextNode == NextOf(s.heap, nodeToRemove)
        h1 == SetNext(s.heap, prevNode, nextNode)
        h2 == SetPrev(h1, nextNode, prevNode)
        s1 == [s EXCEPT !.heap = h2,
                        !.head = IF nodeToRemove = s.head THEN nextNode ELSE s.head,
                        !.current = IF nodeToRemove = s.current THEN nextNode ELSE s.current,
                        !.size = s.size - 1]
    IN UpdateOriginalOrder(s1)

\* Mutant of RemoveTrack: the single-node case is not handled apart.
RemoveTrackNoSingle(s, trackId) ==
    IF s.head = Null \/ s.size = 0 THEN Result(s, Null, FALSE)
    ELSE LET nodeToRemove == FindNode(s, trackId)
         IN IF nodeToRemove = Null THEN Result(s, Null, FALSE)
            ELSE Result(Unlink(s, nodeToRemove), Null, TRUE)

\* removeTrack(trackId).
RemoveTrack(s, trackId) ==
    IF s.head = Null \/ s.size = 0 THEN Result(s, Null, FALSE)
    ELSE LET nodeToRemove == FindNode(s, trackId)
         IN IF nodeToRemove = Null THEN Result(s, Null, FALSE)
            ELSE IF s.size = 1 THEN Result(Clear(s).st, Null, TRUE)
            ELSE Result(Unlink(s, nodeToRemove), Null, TRUE)

\* Mutant of Swap: tracks[i] = tracks[j] alone.
SwapOverwrite(tracks, i, j) ==
    [k \in 1..Len(tracks) |-> IF k = i + 1 THEN tracks[j + 1] ELSE tracks[k]]

\* [tracks[i], tracks[j]] = [tracks[j], tracks[i]], on 0-based indices.
Swap(tracks, i, j) ==
    [k \in 1..Len(tracks) |->
        IF k = i + 1 THEN tracks[j + 1]
        ELSE IF k = j + 1 THEN tracks[i + 1]
        ELSE tracks[k]]

\* The Fisher-Yates loop: for (i = tracks.length - 1; i > 0; i--) swap the
\* elements at i and j, where j = draws[i] is the value of
\* Math.floor(Math.random() * (i + 1)).
RECURSIVE FisherYates(_, _, _)
FisherYates(tracks, draws, i) ==
    IF i > 0 THEN FisherYates(Swap(tracks, i, draws[i]), draws, i - 1)
    ELSE tracks

\* Mutant of Draws: Math.floor(Math.random() * i), an index below i.
DrawsBelow(n) == {d \in [1..(n - 1) -> 0..(n - 1)] : \A i \in 1..(n - 1) : d[i] < i}

\* The values Math.random() can give the loop on n tracks: for each i in
\* 1..n-1 an index in 0..i.
Draws(n) == {d \in [1..(n - 1) -> 0..(n - 1)] : \A i \in 1..(n - 1) : d[i] <= i}

\* tracks.forEach(track => this.addTrack({_id: track.id, ...})).
RECURSIVE AddAll(_, _, _)
AddAll(s, ids, k) ==
    IF k > Len(ids) THEN s
    ELSE AddAll(AddTrack(s, ids[k]).st, ids, k + 1)

\* Mutant of Rebuild: the current track is not selected again.
RebuildNoSelect(s, ids, currentTrack) == AddAll(Clear(s).st, ids, 1)

\* The rebuild shared by shuffle and restoreOrder: this.clear(), the
\* forEach, and, when there was a current track, setCurrentTrack of its id.
Rebuild(s, ids, currentTrack) ==
    LET added == AddAll(Clear(s).st, ids, 1)
    IN IF currentTrack # Null
       THEN SetCurrentTrack(added, IdOf(s.heap, currentTrack)).st
       ELSE added

\* Mutant of Shuffle: the early return on size <= 1 is left out.
ShuffleNoGuard(s, draws) ==
    LET tracks == AllTracks(s)
        shuffled == FisherYates(tracks, draws, Len(tracks) - 1)
        rebuilt == Rebuild(s, shuffled, s.current)
    IN Result([rebuilt EXCEPT !.isShuffled = TRUE], Null, FALSE)

\* Mutant of Shuffle: the flag is set before the early return.
ShuffleFlagsSmall(s, draws) ==
    IF s.size <= 1 THEN Result([s EXCEPT !.isShuffled = TRUE], Null, FALSE)
    ELSE LET tracks == AllTracks(s)
             shuffled == FisherYates(tracks, draws, Len(tracks) - 1)
             rebuilt == Rebuild(s, shuffled, s.current)
         IN Result([rebuilt EXCEPT !.isShuffled = TRUE], Null, FALSE)

\* shuffle(), with the random draws as a parameter.
Shuffle(s, draws) ==
    IF s.size <= 1 THEN Result(s, Null, FALSE)
    ELSE LET tracks == AllTracks(s)
             shuffled == FisherYates(tracks, draws, Len(tracks) - 1)
             rebuilt == Rebuild(s, shuffled, s.current)
         IN Result([rebuilt EXCEPT !.isShuffled = TRUE], Null, FALSE)

\* Mutant of RestoreOrder: the current track is not selected again.
RestoreOrderNoSelect(s) ==
    IF ~s.isShuffled \/ Len(s.originalOrder) = 0 THEN Result(s, Null, FALSE)
    ELSE LET rebuilt == Rebuild(s, s.originalOrder, Null)
         IN Result([rebuilt EXCEPT !.isShuffled = FALSE], Null, FALSE)

\* Mutant of RestoreOrder: this.isShuffled = false is forgotten.
RestoreOrderKeepsFlag(s) ==
    IF ~s.isShuffled \/ Len(s.originalOrder) = 0 THEN Result(s, Null, FALSE)
    ELSE Result(Rebuild(s, s.originalOrder, s.current), Null, FALSE)

\* restoreOrder().
RestoreOrder(s) ==
    IF ~s.isShuffled \/ Len(s.originalOrder) = 0 THEN Result(s, Null, FALSE)
    ELSE LET rebuilt == Rebuild(s, s.originalOrder, s.current)
         IN Result([rebuilt EXCEPT !.isShuffled = FALSE], Null, FALSE)

-----------------------------------------------------------------------------
(* The data of a track.  A string is a sequence of characters over Chars;  *)
(* an optional string is a sequence of no string or of one.  The data      *)
(* fields of a node are written by the constructor only and copied field   *)
(* by field by the rebuilds of shuffle and restoreOrder, and the caller    *)
(* gives one track per identifier, so a node's data is that of the track   *)
(* of its identifier.                                                      *)

Chars == {"a", "b", "A", "B"}

\* The tracks the caller has: titles, artists and genres in both cases, two
\* tracks without genre, the durations 233 and 200 of the first two tracks
\* of the store and one that makes an hour with the first.
Catalog ==
    << [title |-> <<"A", "b">>, artist |-> <<"b">>, duration |-> 233,
        genre |-> << <<"B", "a">> >>],
       [title |-> <<"b", "a">>, artist |-> <<"A">>, duration |-> 200,
        genre |-> <<>>],
       [title |-> <<"b", "b">>, artist |-> <<"b", "B">>, duration |-> 3367,
        genre |-> << <<"A", "a">> >>],
       [title |-> <<"a">>, artist |-> <<"a", "a">>, duration |-> 7,
        genre |-> <<>>] >>

Track(id) == Catalog[((id - 1) % Len(Catalog)) + 1]

TitleOf(h, n) == Track(IdOf(h, n)).title
ArtistOf(h, n) == Track(IdOf(h, n)).artist
DurationOf(h, n) == Track(IdOf(h, n)).duration
GenreOf(h, n) == Track(IdOf(h, n)).genre

\* String.prototype.toLowerCase.
ToLowerCase(str) ==
    [i \in 1..Len(str) |->
        IF str[i] = "A" THEN "a" ELSE IF str[i] = "B" THEN "b" ELSE str[i]]

\* String.prototype.indexOf from position p (counted from 0): the first
\* position where sub occurs, -1 when there is none.
RECURSIVE IndexFrom(_, _, _)
IndexFrom(str, sub, p) ==
    IF p + Len(sub) > Len(str) THEN -1
    ELSE IF SubSeq(str, p + 1, p + Len(sub)) = sub THEN p
    ELSE IndexFrom(str, sub, p + 1)

\* String.prototype.includes.
Includes(str, sub) == IndexFrom(str, sub, 0) # -1

\* Mutant of SearchTracks: the query is not lower-cased.
SearchTracksAsTyped(s, query) ==
    SelectSeq(GetAllTracks(s), LAMBDA n :
        \/ Includes(ToLowerCase(TitleOf(s.heap, n)), query)
        \/ Includes(ToLowerCase(ArtistOf(s.heap, n)), query)
        \/ /\ GenreOf(s.heap, n) # <<>>
           /\ Includes(ToLowerCase(GenreOf(s.heap, n)[1]), query))

\* searchTracks(query): the nodes of getAllTracks() whose title, artist or
\* genre includes the query, all in lower case; track.genre?. yields
\* undefined, which filter takes as false, when there is no genre.
SearchTracks(s, query) ==
    SelectSeq(GetAllTracks(s), LAMBDA n :
        \/ Includes(ToLowerCase(TitleOf(s.heap, n)), ToLowerCase(query))
        \/ Includes(ToLowerCase(ArtistOf(s.heap, n)), ToLowerCase(query))
        \/ /\ GenreOf(s.heap, n) # <<>>
           /\ Includes(ToLowerCase(GenreOf(s.heap, n)[1]), ToLowerCase(query)))

\* The reduce of getTotalDuration over the first k nodes.
RECURSIVE Reduce(_, _, _)
Reduce(h, nodes, k) ==
    IF k = 0 THEN 0 ELSE Reduce(h, nodes, k - 1) + DurationOf(h, nodes[k])

\* getTotalDuration().
GetTotalDuration(s) == Reduce(s.heap, GetAllTracks(s), Len(GetAllTracks(s)))

\* Number.prototype.toString of a natural number, in decimal.
RECURSIVE NumberToString(_)
NumberToString(n) ==
    LET digit == <<"0", "1", "2", "3", "4", "5", "6", "7", "8", "9">>[(n % 10) + 1]
    IN IF n < 10 THEN <<digit>> ELSE Append(NumberToString(n \div 10), digit)

\* Mutant of PadStart: nothing is added.
PadStartNothing(str, targetLength, padChar) == str

\* String.prototype.padStart with a pad string of one character.
PadStart(str, targetLength, padChar) ==
    IF Len(str) >= targetLength THEN str
    ELSE [i \in 1..(targetLength - Len(str)) |-> padChar] \o str

\* getFormattedTotalDuration().
GetFormattedTotalDuration(s) ==
    LET totalSeconds == GetTotalDuration(s)
        hours == totalSeconds \div 3600
        minutes == (totalSeconds % 3600) \div 60
        seconds == totalSeconds % 60
    IN IF hours > 0
       THEN NumberToString(hours) \o <<":">>
                \o PadStart(NumberToString(minutes), 2, "0") \o <<":">>
                \o PadStart(NumberToString(seconds), 2, "0")
       ELSE NumberToString(minutes) \o <<":">>
                \o PadStart(NumberToString(seconds), 2, "0")

-----------------------------------------------------------------------------
(* Garbage collection and address renaming, applied at the end of a call.  *)

\* The objects a reference of the list reaches: head and current, and the
\* next and prev of every object reached.
RECURSIVE ReachFrom(_, _)
ReachFrom(h, seen) ==
    LET more == ({NextOf(h, n) : n \in seen} \cup {PrevOf(h, n) : n \in seen})
                    \cap DOMAIN h
    IN IF more \subseteq seen THEN seen ELSE ReachFrom(h, seen \cup more)

Live(s) == ReachFrom(s.heap, {s.head, s.current} \cap DOMAIN s.heap)

\* The addresses of a set in increasing order.
RECURSIVE Sorted(_)
Sorted(S) ==
    IF S = {} THEN <<>>
    ELSE LET m == CHOOSE x \in S : \A y \in S : x <= y
         IN <<m>> \o Sorted(S \ {m})

\* The live objects in the order of the renaming: those the traversal from
\* head meets, in that order and once each, then the others by address.
RECURSIVE Distinct(_, _)
Distinct(nodes, k) ==
    IF k > Len(nodes) THEN <<>>
    ELSE IF \E j \in 1..(k - 1) : nodes[j] = nodes[k] THEN Distinct(nodes, k + 1)
    ELSE <<nodes[k]>> \o Distinct(nodes, k + 1)

Order(s) ==
    LET live == Live(s)
        walk == SelectSeq(Distinct(GetAllTracks(s), 1), LAMBDA n : n \in live)
    IN walk \o Sorted(live \ {walk[i] : i \in 1..Len(walk)})

\* The new address of a reference under an order: its rank; null stays null.
Renamed(order, n) ==
    IF \E i \in 1..Len(order) : order[i] = n
    THEN CHOOSE i \in 1..Len(order) : order[i] = n
    ELSE Null

\* The list with the unreachable objects dropped and the others renamed.
Settle(s, order) ==
    [s EXCEPT !.head = Renamed(order, s.head),
              !.current = Renamed(order, s.current),
              !.heap = [i \in 1..Len(order) |->
                          [id |-> s.heap[order[i]].id,
                           next |-> Renamed(order, s.heap[order[i]].next),
                           prev |-> Renamed(order, s.heap[order[i]].prev)]]]

-----------------------------------------------------------------------------
(* The player's calls.  op records the last call: its name, its argument,  *)
(* the node and the boolean it returned.  fresh holds while the list has   *)
(* only been inserted into since its construction, and inserted is then    *)
(* the sequence of identifiers inserted.  roundTrip follows a shuffle() of *)
(* a list that was not shuffled and the restoreOrder() that comes right    *)
(* after it, and keeps what getAllTracks() held before that shuffle; its   *)
(* stage is "fallback" after a restoreOrder() that rebuilt the list while  *)
(* the identifier of current was not in originalOrder.  ledger, when it is *)
(* kept, holds the identifiers removed and not inserted since, and the     *)
(* identifiers inserted and neither removed nor cleared since.             *)
(* playerIsShuffled is the isShuffled state of MusicPlayer.                *)

Call(name, arg, node, ok) == [name |-> name, arg |-> arg, node |-> node, ok |-> ok]

NoRoundTrip == [stage |-> "none", order |-> <<>>]

NoLedger == [on |-> FALSE, removed |-> {}, inserted |-> {}]

OpenLedger == [on |-> TRUE, removed |-> {}, inserted |-> {}]

\* The identifiers the ring holds.
NotCleared == [on |-> FALSE, ids |-> <<>>]
HeldIds(s) == {IdOf(s.heap, n) : n \in DOMAIN s.heap}

\* The variables after a call with result res.  (The singleton bindings
\* make TLC compute the result, the order and the renamed list once.)
Do(name, arg, res) ==
    \E r \in {res} : \E order \in {Order(r.st)} : \E s2 \in {Settle(r.st, order)} :
       /\ head' = s2.head
       /\ current' = s2.current
       /\ size' = s2.size
       /\ isShuffled' = s2.isShuffled
       /\ originalOrder' = s2.originalOrder
       /\ heap' = s2.heap
       /\ op' = Call(name, arg, Renamed(order, r.node), r.ok)
       /\ fresh' = (fresh /\ name = "addTrack")
       /\ inserted' = IF fresh /\ name = "addTrack" THEN Append(inserted, arg) ELSE <<>>
       /\ roundTrip' =
            IF name = "shuffle" /\ ~isShuffled /\ size > 1
            THEN [stage |-> "shuffled", order |-> AllTracks(Self)]
            ELSE IF name = "restoreOrder" /\ roundTrip.stage = "shuffled"
            THEN [stage |-> "restored", order |-> roundTrip.order]
            ELSE IF /\ name = "restoreOrder" /\ isShuffled /\ originalOrder # <<>>
                    /\ current # Null
                    /\ IdOf(heap, current) \notin {originalOrder[i] : i \in DOMAIN originalOrder}
            THEN [stage |-> "fallback", order |-> originalOrder]
            ELSE NoRoundTrip
       /\ cleared' = IF name = "clear" THEN [on |-> TRUE, ids |-> <<>>]
                     ELSE IF cleared.on /\ name = "addTrack"
                          THEN [on |-> TRUE, ids |-> Append(cleared.ids, arg)]
                          ELSE NotCleared
       /\ ledger' =
            IF ~ledger.on THEN ledger
            ELSE IF name = "addTrack"
            THEN [ledger EXCEPT !.removed = @ \ {arg}, !.inserted = @ \cup {arg}]
            ELSE IF name = "removeTrack"
            THEN [ledger EXCEPT !.removed = IF r.ok THEN @ \cup {arg} ELSE @,
                                !.inserted = @ \ {arg}]
            ELSE IF name = "clear"
            THEN [ledger EXCEPT !.inserted = {}]
            ELSE ledger
       /\ playerIsShuffled' =
            IF name = "toggleShuffle" THEN ~playerIsShuffled ELSE playerIsShuffled

Init ==
    /\ head = EmptyList.head
    /\ current = EmptyList.current
    /\ size = EmptyList.size
    /\ isShuffled = EmptyList.isShuffled
    /\ originalOrder = EmptyList.originalOrder
    /\ heap = EmptyList.heap
    /\ op = Call("new", Null, Null, FALSE)
    /\ fresh = TRUE
    /\ inserted = <<>>
    /\ roundTrip = NoRoundTrip
    /\ cleared = NotCleared
    /\ ledger = NoLedger
    /\ playerIsShuffled = FALSE

\* The caller inserts a track whose identifier the list does not hold.
DoAddTrack ==
    /\ size < MaxSize
    /\ \E id \in TrackIds \ HeldIds(Self) : Do("addTrack", id, AddTrack(Self, id))

\* The caller inserts a track, whether or not the list holds its identifier.
DoAddAnyTrack ==
    /\ size < MaxDupSize
    /\ \E id \in 1..NumDupIds : Do("addTrack", id, AddTrack(Self, id))

DoNextTrack == Do("nextTrack", Null, NextTrack(Self))

DoPrevTrack == Do("prevTrack", Null, PrevTrack(Self))

DoSetCurrentTrack ==
    \E id \in TrackIds : Do("setCurrentTrack", id, SetCurrentTrack(Self, id))

DoRemoveTrack ==
    \E id \in TrackIds : Do("removeTrack", id, RemoveTrack(Self, id))

DoClear == Do("clear", Null, Clear(Self))

DoShuffle ==
    \E draws \in Draws(size) : Do("shuffle", Null, Shuffle(Self, draws))

DoRestoreOrder == Do("restoreOrder", Null, RestoreOrder(Self))

Next ==
    \/ DoAddTrack
    \/ DoNextTrack
    \/ DoPrevTrack
    \/ DoSetCurrentTrack
    \/ DoRemoveTrack
    \/ DoClear
    \/ DoShuffle
    \/ DoRestoreOrder

Spec == Init /\ [][Next]_vars

NextDup ==
    \/ DoAddAnyTrack
    \/ DoNextTrack
    \/ DoPrevTrack
    \/ DoSetCurrentTrack
    \/ DoRemoveTrack
    \/ DoClear
    \/ DoShuffle
    \/ DoRestoreOrder

SpecDup == Init /\ [][NextDup]_vars

\* The list of Spec, with the ledger of removals and insertions kept.
InitLedger ==
    /\ head = EmptyList.head
    /\ current = EmptyList.current
    /\ size = EmptyList.size
    /\ isShuffled = EmptyList.isShuffled
    /\ originalOrder = EmptyList.originalOrder
    /\ heap = EmptyList.heap
    /\ op = Call("new", Null, Null, FALSE)
    /\ fresh = TRUE
    /\ inserted = <<>>
    /\ roundTrip = NoRoundTrip
    /\ cleared = NotCleared
    /\ ledger = OpenLedger
    /\ playerIsShuffled = FALSE

SpecLedger == InitLedger /\ [][Next]_vars

\* A caller that plays through the list: it inserts, steps, clears, shuffles
\* and restores, and neither removes a track nor selects one by identifier.
\* Every order of the ring, with current on any node, shuffled or not, is
\* reached.
NextPlay ==
    \/ DoAddTrack
    \/ DoNextTrack
    \/ DoPrevTrack
    \/ DoClear
    \/ DoShuffle
    \/ DoRestoreOrder

SpecPlay == Init /\ [][NextPlay]_vars

\* The queries a search is taken with.
Queries == UNION {[1..n -> Chars] : n \in 0..MaxQueryLen}

\* The caller inserts a track whose identifier the list does not hold, into
\* a short list.
DoAddFewTracks ==
    /\ size < MaxQuerySize
    /\ \E id \in TrackIds \ HeldIds(Self) : Do("addTrack", id, AddTrack(Self, id))

\* The player filters the list with the query typed: a read.
DoSearchTracks == Do("searchTracks", Null, Result(Self, Null, FALSE))

\* The player shows the total duration of the list: a read.
DoGetFormattedTotalDuration ==
    Do("getFormattedTotalDuration", Null, Result(Self, Null, FALSE))

NextQuery ==
    \/ DoAddFewTracks
    \/ DoNextTrack
    \/ DoPrevTrack
    \/ DoSetCurrentTrack
    \/ DoRemoveTrack
    \/ DoClear
    \/ DoShuffle
    \/ DoRestoreOrder
    \/ DoSearchTracks
    \/ DoGetFormattedTotalDuration

SpecQuery == Init /\ [][NextQuery]_vars

\* MusicPlayer.  The playlist is built from the tracks prop, and built again
\* by the effect on every change of that prop; the buttons call nextTrack,
\* prevTrack, setCurrentTrack and toggleShuffle.

\* The track lists the tracks prop can hold.
TrackLists ==
    {ids \in UNION {[1..n -> TrackIds] : n \in 0..MaxSize} :
        \A i, j \in 1..Len(ids) : ids[i] = ids[j] => i = j}

\* The effect on a change of tracks: playlist.clear(), then addTrack of
\* every track.
DoTracksChange ==
    \E ids \in TrackLists :
        Do("tracksChange", Null, Result(AddAll(Clear(Self).st, ids, 1), Null, FALSE))

\* toggleShuffle: restoreOrder() when the player's isShuffled is set,
\* shuffle() when it is not, then setIsShuffled(!isShuffled).
DoToggleShuffle ==
    \E draws \in Draws(size) :
        Do("toggleShuffle", Null,
           IF playerIsShuffled THEN RestoreOrder(Self) ELSE Shuffle(Self, draws))

NextPlayer ==
    \/ DoTracksChange
    \/ DoNextTrack
    \/ DoPrevTrack
    \/ DoSetCurrentTrack
    \/ DoToggleShuffle

SpecPlayer == Init /\ [][NextPlayer]_vars

-----------------------------------------------------------------------------
(* Vocabulary of the properties.                                           *)

\* The elements of a sequence.
Range(f) == {f[i] : i \in DOMAIN f}

\* No element occurs twice.
NoRepeat(f) == \A i, j \in DOMAIN f : f[i] = f[j] => i = j

\* The number of occurrences of x.
Count(f, x) == Cardinality({i \in DOMAIN f : f[i] = x})

\* The position of the first occurrence of x, 0 when there is none.
IndexOf(f, x) ==
    IF x \in Range(f)
    THEN CHOOSE i \in DOMAIN f : f[i] = x /\ \A j \in 1..(i - 1) : f[j] # x
    ELSE 0

\* The nodes met from head following prev, until head is met again.
RECURSIVE Backward(_, _, _, _, _)
Backward(h, first, node, acc, fuel) ==
    LET acc2 == Append(acc, node)
        prv == PrevOf(h, node)
    IN IF prv = first \/ prv = Null \/ fuel <= 1 THEN acc2
       ELSE Backward(h, first, prv, acc2, fuel - 1)

\* From head, next closes a cycle of exactly size distinct nodes, so does
\* prev, and next and prev are inverse on it.
WellFormed(s) ==
    LET fwd == GetAllTracks(s)
        bwd == Backward(s.heap, s.head, s.head, <<>>, Cardinality(DOMAIN s.heap))
    IN /\ s.head \in DOMAIN s.heap
       /\ Len(fwd) = s.size
       /\ NoRepeat(fwd)
       /\ NextOf(s.heap, fwd[Len(fwd)]) = s.head
       /\ Len(bwd) = s.size
       /\ NoRepeat(bwd)
       /\ PrevOf(s.heap, bwd[Len(bwd)]) = s.head
       /\ \A n \in Range(fwd) :
            /\ PrevOf(s.heap, NextOf(s.heap, n)) = n
            /\ NextOf(s.heap, PrevOf(s.heap, n)) = n

-----------------------------------------------------------------------------
(* Properties.                                                             *)

\* C1: a list that is not shuffled and holds distinct identifiers has, after
\* shuffle() and then restoreOrder(), whatever the draws, the tracks of
\* before the shuffle in the same order, and is not shuffled.
C1_ShuffleRestoreRoundTrip ==
    (roundTrip.stage = "restored" /\ NoRepeat(roundTrip.order)) =>
        /\ AllTracks(Self) = roundTrip.order
        /\ ~isShuffled

\* C2: whenever the list holds a track, next from head visits exactly size
\* distinct nodes and is back at head, so does prev, and for every node n of
\* the ring n.next.prev = n and n.prev.next = n.
C2_RingWellFormed == size > 0 => WellFormed(Self)

\* C2 witness: a ring of several nodes left by a removal from a shuffled list.
C2_Witness == op.name = "removeTrack" /\ op.ok /\ size >= 2 /\ isShuffled

\* C3: size is 0, head is null and current is null all together or not at all.
C3_EmptyTogether == (size = 0 <=> head = Null) /\ (size = 0 <=> current = Null)

\* C3 witness: the last track has just been removed.
C3_Witness == op.name = "removeTrack" /\ op.ok /\ size = 0

\* C4: current, when not null, is a node of the ring from head.
C4_CurrentInRing == current # Null => current \in Range(GetAllTracks(Self))

\* C4 witness: the current track has just been removed from a ring that is
\* left with several nodes, and current is not on head.
C4_Witness ==
    /\ op.name = "removeTrack" /\ op.ok
    /\ size >= 2 /\ current # head

\* C5: a list that has only been inserted into since it was created holds
\* the inserted tracks in insertion order, and size is their number.
C5_InsertionOrder ==
    fresh => AllTracks(Self) = inserted /\ size = Len(inserted)

\* C5 witness: MaxSize tracks inserted into a new list.
C5_Witness == fresh /\ Len(inserted) = MaxSize /\ NoRepeat(inserted)

\* The list after n calls of nextTrack(), and after n calls of prevTrack().
RECURSIVE Forward(_, _)
Forward(s, n) == IF n = 0 THEN s ELSE Forward(NextTrack(s).st, n - 1)

RECURSIVE Back(_, _)
Back(s, n) == IF n = 0 THEN s ELSE Back(PrevTrack(s).st, n - 1)

\* C6: with no current track nextTrack() and prevTrack() return null and
\* change nothing.  Otherwise nextTrack() moves current to the element after
\* it in getAllTracks(), from the last to the first, prevTrack() to the
\* element before it, from the first to the last, both return the new
\* current, which is never null, and change nothing else.
C6_Advance ==
    LET ring == GetAllTracks(Self)
        i == IndexOf(ring, current)
        fwd == NextTrack(Self)
        bwd == PrevTrack(Self)
    IN IF current = Null
       THEN fwd = Result(Self, Null, FALSE) /\ bwd = Result(Self, Null, FALSE)
       ELSE /\ i > 0
            /\ fwd.st = [Self EXCEPT !.current = ring[(i % size) + 1]]
            /\ fwd.node = fwd.st.current /\ fwd.node # Null
            /\ bwd.st = [Self EXCEPT !.current = ring[((i + size - 2) % size) + 1]]
            /\ bwd.node = bwd.st.current /\ bwd.node # Null

\* C6 witness: prevTrack() has gone from the head of a ring of three or more
\* nodes to its last node.
C6_Witness ==
    /\ op.name = "prevTrack" /\ op.node = current
    /\ size >= 3
    /\ current = GetAllTracks(Self)[size]

\* C7: on a list that holds a track, size calls of nextTrack() leave current
\* where it was, and so do size calls of prevTrack().
C7_Wraparound ==
    size > 0 =>
        /\ Forward(Self, size).current = current
        /\ Back(Self, size).current = current

\* C7 witness: nextTrack() has wrapped to the head of a ring of several
\* nodes that a removal left.
C7_Witness ==
    /\ op.name = "nextTrack" /\ op.node = head
    /\ size >= 2 /\ size < Len(originalOrder)

\* C8: whatever the draws, shuffle() leaves every identifier as many times
\* in getAllTracks() as it was, and leaves size as it was.
C8_ShufflePermutes ==
    \A draws \in Draws(size) :
        LET after == Shuffle(Self, draws).st
        IN /\ \A id \in TrackIds :
                Count(AllTracks(after), id) = Count(AllTracks(Self), id)
           /\ Len(AllTracks(after)) = Len(AllTracks(Self))
           /\ after.size = size

\* C8 witness: shuffle() has rebuilt a list that holds an identifier twice.
C8_Witness ==
    /\ op.name = "shuffle" /\ isShuffled
    /\ size >= 2 /\ ~NoRepeat(AllTracks(Self))

\* C9: removeTrack(id) of an identifier the list holds, on a list of
\* distinct identifiers, returns true, takes one off size and leaves no
\* track of that identifier in getAllTracks().
C9_RemovePresent ==
    NoRepeat(AllTracks(Self)) =>
        \A id \in Range(AllTracks(Self)) :
            LET r == RemoveTrack(Self, id)
            IN /\ r.ok
               /\ r.st.size = size - 1
               /\ id \notin Range(AllTracks(r.st))
               /\ Len(AllTracks(r.st)) = size - 1

\* C9 witness: a removal has succeeded and left tracks behind.
C9_Witness ==
    /\ op.name = "removeTrack" /\ op.ok
    /\ size >= 1 /\ op.arg \notin Range(AllTracks(Self))

\* C10: removeTrack(id) of an identifier the list does not hold, the empty
\* list included, returns false and changes no field and no link.
C10_RemoveAbsent ==
    \A id \in TrackIds \ Range(AllTracks(Self)) :
        RemoveTrack(Self, id) = Result(Self, Null, FALSE)

\* C10 witness: a removal has failed on a shuffled list that holds tracks.
C10_Witness ==
    /\ op.name = "removeTrack" /\ ~op.ok
    /\ size >= 1 /\ isShuffled /\ op.arg \notin Range(AllTracks(Self))

\* C11: on a list of one track, removeTrack of that track's identifier
\* returns true and leaves size 0, head null and current null.
C11_RemoveOnly ==
    size = 1 =>
        \A r \in {RemoveTrack(Self, AllTracks(Self)[1])} :
            /\ r.ok
            /\ r.st.size = 0
            /\ r.st.head = Null
            /\ r.st.current = Null

\* C11 witness: the only track of a list that is not shuffled has been
\* removed.
C11_Witness ==
    /\ op.name = "removeTrack" /\ op.ok
    /\ size = 0 /\ head = Null /\ current = Null
    /\ ~isShuffled /\ Len(originalOrder) = 1

\* C12: setCurrentTrack(id) of an identifier a node of the ring carries
\* makes that node current and returns it; of any other identifier, the
\* empty list included, it returns null and leaves current as it was.  Head,
\* size, the links, isShuffled and originalOrder are as they were in both.
C12_Select ==
    \A id \in TrackIds :
        \A r \in {SetCurrentTrack(Self, id)} :
            IF id \in Range(AllTracks(Self))
            THEN /\ r.node \in Range(GetAllTracks(Self))
                 /\ IdOf(heap, r.node) = id
                 /\ r.st = [Self EXCEPT !.current = r.node]
            ELSE r = Result(Self, Null, FALSE)

\* C12 witness: a search without a match has left current where it was, off
\* the head.
C12_Witness ==
    /\ op.name = "setCurrentTrack" /\ op.node = Null
    /\ op.arg \notin Range(AllTracks(Self))
    /\ size >= 2 /\ current # head

\* C13: when every inserted identifier is one the list does not hold, the
\* identifiers of the ring are pairwise distinct and size is their number.
C13_DistinctIds ==
    /\ NoRepeat(AllTracks(Self))
    /\ size = Cardinality(Range(AllTracks(Self)))
    /\ size = Len(AllTracks(Self))

\* C13 witness: a track has been inserted into a shuffled list, which holds
\* more tracks than the snapshot.
C13_Witness ==
    /\ op.name = "addTrack" /\ isShuffled
    /\ size = MaxSize /\ Len(originalOrder) < size

\* C14: isShuffled is true exactly when getAllTracks() is not in the order
\* of originalOrder.
C14_FlagIffDiffers == isShuffled <=> (AllTracks(Self) # originalOrder)

\* C14, amended: on a list that holds a track, getAllTracks() differs from
\* originalOrder only while isShuffled is true.
C14_DiffersOnlyShuffled ==
    (size > 0 /\ AllTracks(Self) # originalOrder) => isShuffled

\* C14 witness: a shuffled list whose order is not that of originalOrder.
C14_Witness ==
    /\ isShuffled /\ size > 0
    /\ AllTracks(Self) # originalOrder
    /\ Len(originalOrder) = size

\* C15: while isShuffled is true, addTrack, removeTrack, clear, nextTrack,
\* prevTrack, setCurrentTrack and shuffle leave originalOrder as it was.
C15_SnapshotFrozen ==
    isShuffled =>
        /\ \A id \in TrackIds :
            /\ AddTrack(Self, id).st.originalOrder = originalOrder
            /\ RemoveTrack(Self, id).st.originalOrder = originalOrder
            /\ SetCurrentTrack(Self, id).st.originalOrder = originalOrder
        /\ Clear(Self).st.originalOrder = originalOrder
        /\ NextTrack(Self).st.originalOrder = originalOrder
        /\ PrevTrack(Self).st.originalOrder = originalOrder
        /\ \A draws \in Draws(size) :
            Shuffle(Self, draws).st.originalOrder = originalOrder

\* C15 witness: a track of the snapshot has been removed from a shuffled
\* list and is still in the snapshot.
C15_Witness ==
    /\ op.name = "removeTrack" /\ op.ok /\ isShuffled
    /\ op.arg \in Range(originalOrder)
    /\ op.arg \notin Range(AllTracks(Self))

\* C16: shuffle() of a list of two tracks or more with distinct identifiers
\* leaves current on a node with the identifier it had, and isShuffled true.
C16_ShuffleKeepsCurrent ==
    (size >= 2 /\ NoRepeat(AllTracks(Self))) =>
        \A draws \in Draws(size) :
            \A r \in {Shuffle(Self, draws).st} :
                /\ r.current \in Range(GetAllTracks(r))
                /\ IdOf(r.heap, r.current) = IdOf(heap, current)
                /\ r.isShuffled

\* C16 witness: a shuffle of a list that was not shuffled has moved the
\* first track, and the current track is not the first of the new order.
C16_Witness ==
    /\ op.name = "shuffle" /\ roundTrip.stage = "shuffled"
    /\ isShuffled /\ size >= 2
    /\ current # head
    /\ AllTracks(Self)[1] # roundTrip.order[1]

\* C17: restoreOrder() changes nothing when isShuffled is false or
\* originalOrder is empty; otherwise getAllTracks() is then originalOrder,
\* size its length, the ring well formed and isShuffled false.
C17_RestoreOrder ==
    \A r \in {RestoreOrder(Self).st} :
        IF ~isShuffled \/ originalOrder = <<>>
        THEN r = Self
        ELSE /\ AllTracks(r) = originalOrder
             /\ r.size = Len(originalOrder)
             /\ WellFormed(r)
             /\ ~r.isShuffled

\* C17 witness: restoreOrder() has rebuilt a shuffled list from a snapshot
\* of as many tracks as the list can hold.
C17_Witness ==
    /\ op.name = "restoreOrder" /\ roundTrip.stage = "restored"
    /\ ~isShuffled /\ size = MaxSize
    /\ AllTracks(Self) = originalOrder

\* C18: clear() sets head and current to null and size to 0, and leaves
\* isShuffled and originalOrder as they were.
C18_Clear ==
    \A r \in {Clear(Self).st} :
        /\ r.head = Null /\ r.current = Null /\ r.size = 0
        /\ r.isShuffled = isShuffled
        /\ r.originalOrder = originalOrder

\* C18 witness: a shuffled list has been cleared; the flag and the snapshot
\* are still those of the shuffled list.
C18_Witness ==
    /\ op.name = "clear"
    /\ head = Null /\ current = Null /\ size = 0
    /\ isShuffled /\ Len(originalOrder) >= 2

\* C19: shuffle() of a list of at most one track changes nothing.
C19_ShuffleSmall ==
    size <= 1 => \A draws \in Draws(size) : Shuffle(Self, draws).st = Self

\* C19 witness: shuffle() has been called on a list of one track, which is
\* not shuffled.
C19_Witness ==
    /\ op.name = "shuffle" /\ size = 1
    /\ ~isShuffled /\ AllTracks(Self) = originalOrder

\* C20: after clear() and then addTrack of t1..tn with distinct identifiers,
\* getAllTracks() is t1..tn, size is n, and head and current are the node of
\* t1.
C20_Rebuild ==
    cleared.on =>
        /\ AllTracks(Self) = cleared.ids
        /\ size = Len(cleared.ids)
        /\ size > 0 => /\ head = current
                       /\ head # Null
                       /\ IdOf(heap, head) = cleared.ids[1]

\* C20 witness: a shuffled list has been cleared and filled again.
C20_Witness ==
    /\ cleared.on /\ Len(cleared.ids) = MaxSize
    /\ isShuffled /\ originalOrder # cleared.ids

\* The node reached from head after k steps along next.
RECURSIVE Walk(_, _)
Walk(s, k) == IF k = 0 THEN s.head ELSE NextOf(s.heap, Walk(s, k - 1))

\* C23: the traversals from head of getAllTracks, setCurrentTrack and
\* removeTrack end: following next from head meets no null and is back on
\* head after at most size steps.
C23_TraversalEnds ==
    head # Null =>
        \E k \in 1..size :
            /\ Walk(Self, k) = head
            /\ \A j \in 0..k : Walk(Self, j) \in DOMAIN heap

\* C23 witness: setCurrentTrack has walked a full list from head to the
\* last node, whose next is head.
C23_Witness ==
    /\ op.name = "setCurrentTrack" /\ op.node # Null
    /\ size = MaxSize /\ op.node # head
    /\ NextOf(heap, op.node) = head

\* C24: when shuffle() returns on a list that was not shuffled,
\* originalOrder is what getAllTracks() held before the call.
C24_ShuffleKeepsSnapshot ==
    (op.name = "shuffle" /\ roundTrip.stage = "shuffled") =>
        originalOrder = roundTrip.order

\* C25: after a successful removeTrack on a list that is not shuffled, the
\* removal of the only track included, originalOrder is getAllTracks().
C25_RemoveRefreshes ==
    (op.name = "removeTrack" /\ op.ok /\ ~isShuffled) =>
        originalOrder = AllTracks(Self)

\* C26: addTrack of a track puts it last: on a list that holds a track,
\* getAllTracks() is what it was with the new track appended, head and
\* current are what they were and size is one more; on an empty list the
\* new node is head and current and is its own next and prev.  When the list
\* is not shuffled, originalOrder is then the new getAllTracks().
C26_AddLast ==
    \A id \in TrackIds \ HeldIds(Self) :
        \A r \in {AddTrack(Self, id).st} :
            /\ AllTracks(r) = Append(AllTracks(Self), id)
            /\ r.size = size + 1
            /\ IF size > 0
               THEN r.head = head /\ r.current = current
               ELSE /\ r.head \in DOMAIN r.heap
                    /\ r.current = r.head
                    /\ NextOf(r.heap, r.head) = r.head
                    /\ PrevOf(r.heap, r.head) = r.head
            /\ ~isShuffled => r.originalOrder = AllTracks(r)
            /\ isShuffled => r.originalOrder = originalOrder

\* C26 witness: a track has been added last to a list that is not shuffled
\* and whose current track is neither the first nor the new one.
C26_Witness ==
    /\ op.name = "addTrack" /\ ~isShuffled /\ size = MaxSize
    /\ AllTracks(Self)[size] = op.arg
    /\ originalOrder = AllTracks(Self)
    /\ current # head /\ NextOf(heap, current) # head

\* C27: removeTrack on a list of two tracks or more moves head to the next
\* of the removed node when head was on it, and current to the next of the
\* removed node when current was on it; otherwise they stay.
C27_SuccessorWins ==
    size >= 2 =>
        \A id \in Range(AllTracks(Self)) :
            \A n \in {FindNode(Self, id)} : \A r \in {RemoveTrack(Self, id).st} :
                /\ r.head = IF n = head THEN NextOf(heap, n) ELSE head
                /\ r.current = IF n = current THEN NextOf(heap, n) ELSE current
                /\ r.head # n /\ r.current # n

\* C27 witness: the first track of a shuffled list of three has been
\* removed; head is on the second of the snapshot and current on the third.
C27_Witness ==
    /\ op.name = "removeTrack" /\ op.ok /\ isShuffled
    /\ Len(originalOrder) = 3 /\ size = 2
    /\ op.arg = originalOrder[1]
    /\ AllTracks(Self) = Tail(originalOrder)
    /\ current # head

\* C28: after a restoreOrder() that rebuilds the list while the identifier
\* of current is not in originalOrder, current is the last node inserted by
\* the rebuild, the tail of the ring.
C28_FallbackTail ==
    (op.name = "restoreOrder" /\ roundTrip.stage = "fallback") =>
        current = PrevOf(heap, head)

\* C28, amended: after such a restoreOrder(), current is the first node
\* inserted by the rebuild, the head of the ring.
C28_FallbackHead ==
    (op.name = "restoreOrder" /\ roundTrip.stage = "fallback") =>
        /\ current = head
        /\ head # Null
        /\ IdOf(heap, current) = roundTrip.order[1]
        /\ AllTracks(Self) = roundTrip.order

\* C28 witness: restoreOrder() has rebuilt the list while current was on a
\* track inserted after the shuffle.
C28_Witness ==
    /\ op.name = "restoreOrder" /\ roundTrip.stage = "fallback"
    /\ ~isShuffled /\ size >= 2
    /\ current = head /\ current # PrevOf(heap, head)

\* C29: a restoreOrder() that takes effect while the identifier of current
\* is in originalOrder leaves current on a node with that identifier.
C29_RestoreKeepsCurrent ==
    (/\ isShuffled /\ originalOrder # <<>>
     /\ current # Null /\ IdOf(heap, current) \in Range(originalOrder)) =>
        \A r \in {RestoreOrder(Self).st} :
            /\ r.current \in Range(GetAllTracks(r))
            /\ IdOf(r.heap, r.current) = IdOf(heap, current)

\* C29 witness: restoreOrder() right after a shuffle has rebuilt the list,
\* and the current track is not the first of the restored order.
C29_Witness ==
    /\ op.name = "restoreOrder" /\ roundTrip.stage = "restored"
    /\ ~isShuffled /\ size >= 2
    /\ current # head

\* Two characters are the same letter, whatever their case.
SameLetter(c, d) ==
    \/ c = d
    \/ {c, d} = {"a", "A"}
    \/ {c, d} = {"b", "B"}

\* The query occurs in the text at some position, case apart.
OccursIn(text, query) ==
    \E p \in 0..(Len(text) - Len(query)) :
        \A i \in 1..Len(query) : SameLetter(text[p + i], query[i])

\* The query occurs in the title, the artist or, when there is one, the
\* genre of the track.
Matches(id, query) ==
    \/ OccursIn(Track(id).title, query)
    \/ OccursIn(Track(id).artist, query)
    \/ \E i \in DOMAIN Track(id).genre : OccursIn(Track(id).genre[i], query)

\* C21: searchTracks(query) is getAllTracks() without the tracks that do
\* not match: those left are exactly the tracks whose title, artist or
\* present genre holds the query, case apart, in the order of the ring.
\* searchTracks is an operator on the list: it has no list to return, so it
\* changes none.
C21_Search ==
    \A query \in Queries :
        SearchTracks(Self, query) =
            SelectSeq(GetAllTracks(Self), LAMBDA n : Matches(IdOf(heap, n), query))

\* C21 witness: a search of a shuffled list of a track without genre and
\* then a track with the genre "Aa": the query "aA" finds the second track
\* only, through its genre.
C21_Witness ==
    /\ op.name = "searchTracks" /\ isShuffled
    /\ AllTracks(Self) = <<2, 3>>
    /\ IdsOf(heap, SearchTracks(Self, <<"a", "A">>)) = <<3>>
    /\ ~OccursIn(Track(3).title, <<"a", "A">>)
    /\ ~OccursIn(Track(3).artist, <<"a", "A">>)

\* The sum of the durations of a set of tracks.
RECURSIVE SumOf(_)
SumOf(ids) ==
    IF ids = {} THEN 0
    ELSE LET id == CHOOSE x \in ids : TRUE
         IN Track(id).duration + SumOf(ids \ {id})

Digit(d) == <<"0", "1", "2", "3", "4", "5", "6", "7", "8", "9">>[d + 1]
TwoDigits(x) == <<Digit(x \div 10), Digit(x % 10)>>
Plain(x) == IF x < 10 THEN <<Digit(x)>> ELSE TwoDigits(x)

\* H:MM:SS when there is an hour, M:SS otherwise.
Formatted(T) ==
    IF T \div 3600 > 0
    THEN Plain(T \div 3600) \o <<":">> \o TwoDigits((T % 3600) \div 60)
             \o <<":">> \o TwoDigits(T % 60)
    ELSE Plain((T % 3600) \div 60) \o <<":">> \o TwoDigits(T % 60)

\* C22: getTotalDuration() is the sum of the durations of the tracks of the
\* ring, each once, and getFormattedTotalDuration() is that total T as
\* H:MM:SS when T is an hour or more and M:SS otherwise; the tracks of 233
\* and 200 seconds give 433 and 7:13.
C22_TotalDuration ==
    /\ GetTotalDuration(Self) = SumOf(Range(AllTracks(Self)))
    /\ GetFormattedTotalDuration(Self) = Formatted(SumOf(Range(AllTracks(Self))))
    /\ AllTracks(Self) = <<1, 2>> =>
        /\ GetTotalDuration(Self) = 433
        /\ GetFormattedTotalDuration(Self) = <<"7", ":", "1", "3">>

\* C22 witness: the total of a list of two tracks is read after a removal
\* and an insertion; it is an hour, with minutes and seconds below ten.
C22_Witness ==
    /\ op.name = "getFormattedTotalDuration"
    /\ size = 2 /\ ~fresh
    /\ GetTotalDuration(Self) = 3600
    /\ GetFormattedTotalDuration(Self) = <<"1", ":", "0", "0", ":", "0", "0">>

RECURSIVE Factorial(_)
Factorial(n) == IF n <= 1 THEN 1 ELSE n * Factorial(n - 1)

\* The orders shuffle() can leave, over all the draws.
ShuffledOrders(s) == {AllTracks(Shuffle(s, draws).st) : draws \in Draws(s.size)}

\* C30: over all the draws, the orders shuffle() can leave in
\* getAllTracks() are the size! permutations of the order before it: each
\* is a permutation of it, and there are size! of them, the order before
\* included.
C30_AllPermutations ==
    \A orders \in {ShuffledOrders(Self)} :
        /\ \A o \in orders :
            /\ Len(o) = size
            /\ \A id \in Range(o) : Count(o, id) = Count(AllTracks(Self), id)
        /\ Cardinality(orders) = Factorial(size)
        /\ AllTracks(Self) \in orders

\* C30 witness: a shuffle of a full list that was not shuffled has drawn the
\* identity: the order is that of before.
C30_Witness ==
    /\ op.name = "shuffle" /\ roundTrip.stage = "shuffled"
    /\ isShuffled /\ size = MaxSize
    /\ AllTracks(Self) = roundTrip.order

\* C31: isShuffled goes from false to true only in a shuffle() of a list
\* of two tracks or more, and from true to false only in a restoreOrder();
\* no other call, the two reads included, changes it.
C31_FlagTransitions ==
    [][/\ (~isShuffled /\ isShuffled') => (op'.name = "shuffle" /\ size >= 2)
       /\ (isShuffled /\ ~isShuffled') => op'.name = "restoreOrder"]_vars

\* C31 witness: a shuffled list has been cleared and filled again, and is
\* still shuffled.
C31_Witness ==
    /\ cleared.on /\ Len(cleared.ids) = MaxQuerySize
    /\ op.name = "addTrack" /\ isShuffled
    /\ current = head

\* C32: when two nodes of the ring or more carry an identifier,
\* setCurrentTrack selects and removeTrack removes the first of them on the
\* walk from head, and the others stay in the ring where they were.
C32_FirstMatch ==
    \A id \in Range(AllTracks(Self)) :
        Count(AllTracks(Self), id) >= 2 =>
            \A nodes \in {GetAllTracks(Self)} :
            \A first \in {nodes[IndexOf(AllTracks(Self), id)]} :
                /\ SetCurrentTrack(Self, id).node = first
                /\ SetCurrentTrack(Self, id).st.current = first
                /\ GetAllTracks(SetCurrentTrack(Self, id).st) = nodes
                /\ RemoveTrack(Self, id).ok
                /\ GetAllTracks(RemoveTrack(Self, id).st) =
                       SelectSeq(nodes, LAMBDA n : n # first)
                /\ id \in Range(AllTracks(RemoveTrack(Self, id).st))

\* C32 witness: one of two nodes with the same identifier has been removed
\* and the other is in the ring.
C32_Witness ==
    /\ op.name = "removeTrack" /\ op.ok
    /\ size >= 1
    /\ op.arg \in Range(AllTracks(Self))

\* C33: once removeTrack(id) has returned true, getAllTracks() holds no
\* track of that identifier until a track of that identifier is inserted.
C33_RemovedStaysOut ==
    ledger.on => ledger.removed \cap Range(AllTracks(Self)) = {}

\* C34: a track inserted is in getAllTracks() in every later state, until
\* a removeTrack of its identifier or a clear().
C34_InsertedStaysIn ==
    ledger.on => ledger.inserted \subseteq Range(AllTracks(Self))

\* C35: on an empty list every call other than addTrack leaves size at 0
\* and head and current null.
C35_EmptyStaysEmpty ==
    [][(size = 0 /\ op'.name # "addTrack") =>
           (size' = 0 /\ head' = Null /\ current' = Null)]_vars

\* C36: a removeTrack(id) that succeeds on a list of two tracks or more
\* leaves getAllTracks() as it was with the removed node taken out, head
\* where it was unless it was on that node, and current where it was unless
\* it was on that node.
C36_RemoveKeepsOthers ==
    size >= 2 =>
        \A id \in Range(AllTracks(Self)) :
            \A n \in {FindNode(Self, id)} : \A r \in {RemoveTrack(Self, id)} :
                /\ r.ok
                /\ GetAllTracks(r.st) = SelectSeq(GetAllTracks(Self), LAMBDA m : m # n)
                /\ AllTracks(r.st) = SelectSeq(AllTracks(Self), LAMBDA t : t # id)
                /\ n # head => r.st.head = head
                /\ n # current => r.st.current = current

\* C36 witness: a removal from a list that was not shuffled has left
\* MaxSize - 1 tracks, with current on the last of them.
C36_Witness ==
    /\ op.name = "removeTrack" /\ op.ok /\ ~isShuffled
    /\ size = MaxSize - 1
    /\ current # head /\ current = PrevOf(heap, head)

\* C37: the isShuffled state of MusicPlayer equals getIsShuffled() of its
\* playlist after every click and every change of the tracks.
C37_IndicatorAgrees == playerIsShuffled = isShuffled

=============================================================================
